---- MODULE Spec2Model ----
(***************************************************************************)
(* Model of the transcript parser of src/posts/transcript.rs.              *)
(*                                                                         *)
(* A Rust string is a sequence of characters; a character is a one-letter  *)
(* TLA+ string.  The glyph U+266B (beamed notes) is the token Note.        *)
(* An Option<T> is a sequence of length 0 (None) or 1 (Some).              *)
(* A Result<T> is [ok |-> TRUE, val |-> v] or [ok |-> FALSE, err |-> e];   *)
(* an anyhow error is its format string and its interpolated arguments.    *)
(***************************************************************************)
EXTENDS Integers, Sequences, FiniteSets, TLC

VARIABLES file, result, panels, names, stdout, strings, panel, string, speaker

vars == <<file, result, panels, names, stdout, strings, panel, string, speaker>>

-----------------------------------------------------------------------------
(* Characters.  Case folding covers the letters A-Z and white space the   *)
(* ASCII white space characters; the standard library treats the rest of   *)
(* Unicode alike.                                                          *)

Note == "U+266B"

Tilde == "~"

Colon == ":"

Upper == <<"A","B","C","D","E","F","G","H","I","J","K","L","M",
           "N","O","P","Q","R","S","T","U","V","W","X","Y","Z">>

Lower == <<"a","b","c","d","e","f","g","h","i","j","k","l","m",
           "n","o","p","q","r","s","t","u","v","w","x","y","z">>

WhiteSpace == {" ", "\t", "\n", "\r", "\f"}

char_to_lowercase(c) ==
    IF \E i \in 1..Len(Upper) : Upper[i] = c
    THEN Lower[CHOOSE i \in 1..Len(Upper) : Upper[i] = c]
    ELSE c

char_to_uppercase(c) ==
    IF \E i \in 1..Len(Lower) : Lower[i] = c
    THEN Upper[CHOOSE i \in 1..Len(Lower) : Lower[i] = c]
    ELSE c

-----------------------------------------------------------------------------
(* str methods of the standard library used by the parser *)

to_lowercase(s) == [i \in 1..Len(s) |-> char_to_lowercase(s[i])]

to_uppercase(s) == [i \in 1..Len(s) |-> char_to_uppercase(s[i])]

ends_with(s, c) == Len(s) > 0 /\ s[Len(s)] = c

starts_with(s, c) == Len(s) > 0 /\ s[1] = c

is_empty(s) == Len(s) = 0

trim(s) ==
    LET keep == {i \in 1..Len(s) : s[i] \notin WhiteSpace}
    IN  IF keep = {} THEN <<>>
        ELSE LET lo == CHOOSE i \in keep : \A j \in keep : i <= j
                 hi == CHOOSE i \in keep : \A j \in keep : j <= i
             IN  SubSeq(s, lo, hi)

\* str::lines: split at "\n", drop one "\r" before it; the final line ending
\* is optional, so no empty line follows a trailing "\n".  nl is the position
\* of the first "\n" at or after start, or one past the end.
RECURSIVE lines_from(_, _)
lines_from(s, start) ==
    IF start > Len(s) THEN <<>>
    ELSE LET nl == CHOOSE i \in start..(Len(s) + 1) :
                     /\ i = Len(s) + 1 \/ s[i] = "\n"
                     /\ \A j \in start..(i - 1) : s[j] # "\n"
             end == IF nl <= Len(s) /\ nl > start /\ s[nl - 1] = "\r"
                    THEN nl - 2 ELSE nl - 1
         IN  <<SubSeq(s, start, end)>> \o lines_from(s, nl + 1)

lines(s) == lines_from(s, 1)

\* str::replace('~', "♫")
replace(s, from, to) == [i \in 1..Len(s) |-> IF s[i] = from THEN to ELSE s[i]]

-----------------------------------------------------------------------------
(* Free functions of transcript.rs *)

\* Mutant: only the first ~ is replaced (replacen with a count of 1).
format_transcript_text_first(s) ==
    [i \in 1..Len(s) |->
        IF s[i] = Tilde /\ \A j \in 1..(i - 1) : s[j] # Tilde THEN Note ELSE s[i]]

format_transcript_text(s) == replace(s, Tilde, Note)

remove_last_char(s) == IF Len(s) = 0 THEN s ELSE SubSeq(s, 1, Len(s) - 1)

remove_first_char(s) == IF Len(s) = 0 THEN s ELSE SubSeq(s, 2, Len(s))

-----------------------------------------------------------------------------
(* Results and errors; the back quotes around {} in the messages are left out *)

Ok(v) == [ok |-> TRUE, val |-> v]

Err(e) == [ok |-> FALSE, err |-> e]

EmptyInput == [msg |-> "Empty file", args |-> <<>>]

InvalidPanelCount == [msg |-> "Must contain exactly 3 OR 7 panels", args |-> <<>>]

DanglingSpeaker(s) == [msg |-> "expected text line after {}", args |-> <<s>>]

InvalidSpeaker(s) == [msg |-> "Not a valid speaker {}", args |-> <<s>>]

-----------------------------------------------------------------------------
(* impl TryFrom<&str> for Speaker *)

Sound == [tag |-> "Sound"]

Text == [tag |-> "Text"]

Character(n, u) == [tag |-> "Character", name |-> n, uncommon |-> u]

SONO == <<"[","s","o","n","o","]">>

SKRIBO == <<"[","s","k","r","i","b","o","]">>

COMMON_NAMES ==
    { <<"g","a","r","f","i","l","d","o">>,
      <<"j","o","n","o">>,
      <<"l","i","z","o">>,
      <<"o","d","i","o">>,
      <<"n","e","r","m","a","l","o">>,
      <<"a","r","l","i","n","o">>,
      <<"h","u","n","d","o">>,
      <<"t","e","l","e","v","i","d","i","l","o">>,
      <<"i","r","m","a">>,
      <<"m","u","s","o">>,
      <<"a","r","a","n","e","o">>,
      <<"p","e","s","i","l","o">>,
      <<"p","a","t","r","i","n","o">>,
      <<"p","a","t","r","o">> }

\* The name bound at line 131 and the flag bound at line 132.
speaker_name(s) == to_lowercase(remove_last_char(s))

speaker_uncommon(s) == starts_with(speaker_name(s), Tilde)

\* Mutant: the keywords are matched without lowering the line.
Speaker_try_from_case_sensitive(s) ==
    IF ~ends_with(s, Colon)
    THEN IF s = SONO THEN Ok(Sound)
         ELSE IF s = SKRIBO THEN Ok(Text)
         ELSE Err(InvalidSpeaker(s))
    ELSE LET name0 == speaker_name(s)
             uncommon == speaker_uncommon(s)
             name == IF uncommon THEN remove_first_char(name0) ELSE name0
         IN  Ok(Character(name, uncommon))

\* Mutant: a common name is never flagged uncommon.
Speaker_try_from_common_wins(s) ==
    IF ~ends_with(s, Colon)
    THEN LET low == to_lowercase(s)
         IN  IF low = SONO THEN Ok(Sound)
             ELSE IF low = SKRIBO THEN Ok(Text)
             ELSE Err(InvalidSpeaker(s))
    ELSE LET name0 == speaker_name(s)
             marked == speaker_uncommon(s)
             name == IF marked THEN remove_first_char(name0) ELSE name0
         IN  Ok(Character(name, marked /\ name \notin COMMON_NAMES))

Speaker_try_from(s) ==
    IF ~ends_with(s, Colon)
    THEN LET low == to_lowercase(s)
         IN  IF low = SONO THEN Ok(Sound)
             ELSE IF low = SKRIBO THEN Ok(Text)
             ELSE Err(InvalidSpeaker(s))
    ELSE LET name0 == speaker_name(s)
             uncommon == speaker_uncommon(s)
             name == IF uncommon THEN remove_first_char(name0) ELSE name0
         IN  Ok(Character(name, uncommon))

\* What Speaker::try_from prints: the lines written by println! at 154 and 159.
Speaker_println(s) ==
    IF ~ends_with(s, Colon) THEN <<>>
    ELSE LET name0 == speaker_name(s)
             uncommon == speaker_uncommon(s)
         IN  IF uncommon
             THEN LET name == remove_first_char(name0)
                  IN  IF name \in COMMON_NAMES
                      THEN << <<"!", " ", "~">> \o to_uppercase(name) >>
                      ELSE <<>>
             ELSE IF name0 \notin COMMON_NAMES
                  THEN << <<"?", " ">> \o to_uppercase(name0) >>
                  ELSE <<>>

-----------------------------------------------------------------------------
(* impl TryFrom<Vec<&str>> for Panel *)

Line(sp, t) == [speaker |-> sp, text |-> t]

Panel(ls) == [lines |-> ls]

\* The while-let loop of lines 105-114: i is the iterator's position, acc the
\* lines pushed so far, out what has been printed so far.
RECURSIVE Panel_loop(_, _, _, _)
Panel_loop(strs, i, acc, out) ==
    IF i > Len(strs) THEN [res |-> Ok(Panel(acc)), out |-> out]
    ELSE LET sp == Speaker_try_from(strs[i])
             out2 == out \o Speaker_println(strs[i])
         IN  IF ~sp.ok THEN [res |-> Err(sp.err), out |-> out2]
             ELSE IF i + 1 > Len(strs)
                  THEN [res |-> Err(DanglingSpeaker(strs[i])), out |-> out2]
                  ELSE Panel_loop(strs, i + 2,
                                  Append(acc, Line(sp.val, format_transcript_text(strs[i + 1]))),
                                  out2)

\* Mutant: the text line is looked for before the marker is classified.
RECURSIVE Panel_loop_text_first(_, _, _, _)
Panel_loop_text_first(strs, i, acc, out) ==
    IF i > Len(strs) THEN [res |-> Ok(Panel(acc)), out |-> out]
    ELSE IF i + 1 > Len(strs)
         THEN [res |-> Err(DanglingSpeaker(strs[i])), out |-> out]
         ELSE LET sp == Speaker_try_from(strs[i])
                  out2 == out \o Speaker_println(strs[i])
              IN  IF ~sp.ok THEN [res |-> Err(sp.err), out |-> out2]
                  ELSE Panel_loop_text_first(strs, i + 2,
                           Append(acc, Line(sp.val, format_transcript_text(strs[i + 1]))),
                           out2)

Panel_try_from_text_first(strs) == Panel_loop_text_first(strs, 1, <<>>, <<>>)

Panel_try_from(strs) == Panel_loop(strs, 1, <<>>, <<>>)

-----------------------------------------------------------------------------
(* impl TryFrom<String> for Transcript *)

Separator == <<"-","-","-">>

Normal(ps) == [variant |-> "Normal", panels |-> ps]

Sunday(ps) == [variant |-> "Sunday", panels |-> ps]

\* The for loop of lines 65-76: i is the position in file.lines(), cur the
\* local lines.
RECURSIVE segment(_, _, _, _)
segment(file_lines, i, panels_lines, cur) ==
    IF i > Len(file_lines) THEN [panels_lines |-> panels_lines, lines |-> cur]
    ELSE LET file_line == trim(file_lines[i])
         IN  IF is_empty(file_line) THEN segment(file_lines, i + 1, panels_lines, cur)
             ELSE IF file_line = Separator
                  THEN segment(file_lines, i + 1, Append(panels_lines, cur), <<>>)
                  ELSE segment(file_lines, i + 1, panels_lines, Append(cur, file_line))

\* Mutant: the lines after the last separator are not pushed.
panels_lines_of_no_push(f) == segment(lines(f), 1, <<>>, <<>>).panels_lines

\* Mutant: blank lines are not skipped.
RECURSIVE segment_keep_blank(_, _, _, _)
segment_keep_blank(file_lines, i, panels_lines, cur) ==
    IF i > Len(file_lines) THEN [panels_lines |-> panels_lines, lines |-> cur]
    ELSE LET file_line == trim(file_lines[i])
         IN  IF file_line = Separator
             THEN segment_keep_blank(file_lines, i + 1, Append(panels_lines, cur), <<>>)
             ELSE segment_keep_blank(file_lines, i + 1, panels_lines, Append(cur, file_line))

panels_lines_of_keep_blank(f) ==
    LET r == segment_keep_blank(lines(f), 1, <<>>, <<>>)
    IN  Append(r.panels_lines, r.lines)

\* panels_lines after the loop and the push of line 77.
panels_lines_of(f) ==
    LET r == segment(lines(f), 1, <<>>, <<>>)
    IN  Append(r.panels_lines, r.lines)

\* The for loop of lines 85-87.
RECURSIVE panels_loop(_, _, _, _)
panels_loop(pls, i, acc, out) ==
    IF i > Len(pls) THEN [res |-> Ok(acc), out |-> out]
    ELSE LET p == Panel_try_from(pls[i])
         IN  IF ~p.res.ok THEN [res |-> p.res, out |-> out \o p.out]
             ELSE panels_loop(pls, i + 1, Append(acc, p.res.val), out \o p.out)

\* Mutant: only the three-panel strip is accepted.
match_len_no_sunday(ps) ==
    IF Len(ps) = 3 THEN Ok(Normal(ps)) ELSE Err(InvalidPanelCount)

\* The match of lines 89-93.
match_len(ps) ==
    IF Len(ps) = 3 THEN Ok(Normal(ps))
    ELSE IF Len(ps) = 7 THEN Ok(Sunday(ps))
    ELSE Err(InvalidPanelCount)

Transcript_try_from(f) ==
    LET pls == panels_lines_of(f)
    IN  IF is_empty(pls) THEN [res |-> Err(EmptyInput), out |-> <<>>]
        ELSE LET ps == panels_loop(pls, 1, <<>>, <<>>)
             IN  IF ~ps.res.ok THEN ps
                 ELSE [res |-> match_len(ps.res.val), out |-> ps.out]

-----------------------------------------------------------------------------
(* impl Transcript, impl Speaker *)

Transcript_panels(t) == t.panels

Speaker_character(sp) ==
    IF sp.tag = "Character" THEN << <<sp.name, sp.uncommon>> >> ELSE <<>>

RECURSIVE filter_map_character(_, _)
filter_map_character(ls, i) ==
    IF i > Len(ls) THEN <<>>
    ELSE Speaker_character(ls[i].speaker) \o filter_map_character(ls, i + 1)

RECURSIVE flat_map_panels(_, _)
flat_map_panels(ps, i) ==
    IF i > Len(ps) THEN <<>>
    ELSE filter_map_character(ps[i].lines, 1) \o flat_map_panels(ps, i + 1)

\* Mutant: a name equal to the one before it is dropped (dedup).
Transcript_names_dedup(t) ==
    LET all == flat_map_panels(Transcript_panels(t), 1)
        keep == SelectSeq([i \in 1..Len(all) |-> i],
                          LAMBDA i : i = 1 \/ all[i] # all[i - 1])
    IN  [n \in 1..Len(keep) |-> all[keep[n]]]

Transcript_names(t) == flat_map_panels(Transcript_panels(t), 1)

-----------------------------------------------------------------------------
(* Inputs *)

MaxSeps == 7

MaxEntries == 2

MaxEditSeps == 2

MaxGroupLen == 3

MaxAffix == 1

\* Raw lines an author writes, already trimmed.
IrmaMarker == <<"I","r","m","a",":">>

AbMarker == <<"~","A","b",":">>

SonoMarker == <<"[","S","O","N","O","]">>

SkriboMarker == <<"[","S","k","r","i","b","o","]">>

EmptyMarker == <<":">>

EmptyUncommonMarker == <<"~",":">>

SungText == <<"l","a","~">>

PlainText == <<"x">>

\* What an author puts between separators: pairs, and lone lines.
Entries ==
    { <<IrmaMarker, SungText>>,
      <<SonoMarker, SungText, AbMarker, PlainText, SkriboMarker, PlainText>>,
      <<EmptyMarker>>,
      <<PlainText>> }

\* The documents of at most s separator lines and e entries, as lists of lines.
RECURSIVE Docs(_, _)
Docs(s, e) ==
    {<<>>}
    \cup (IF s = 0 THEN {} ELSE {<<Separator>> \o d : d \in Docs(s - 1, e)})
    \cup (IF e = 0 THEN {} ELSE {en \o d : en \in Entries, d \in Docs(s, e - 1)})

\* How the lines are laid out in the file: indentation, trailing white space,
\* blank lines before each line, the line ending, and whether the last line
\* is ended.
Styles ==
    { [indent |-> <<>>, trail |-> <<>>, gap |-> <<>>, eol |-> <<"\n">>, final |-> FALSE],
      [indent |-> <<" ">>, trail |-> <<"\t">>, gap |-> << <<>>, <<" ">> >>,
       eol |-> <<"\r", "\n">>, final |-> TRUE] }

RECURSIVE Join(_, _, _)
Join(ls, eol, final) ==
    IF Len(ls) = 0 THEN <<>>
    ELSE IF Len(ls) = 1 THEN (IF final THEN ls[1] \o eol ELSE ls[1])
    ELSE ls[1] \o eol \o Join(Tail(ls), eol, final)

RECURSIVE Layout(_, _)
Layout(d, st) ==
    IF Len(d) = 0 THEN <<>>
    ELSE st.gap \o <<st.indent \o d[1] \o st.trail>> \o Layout(Tail(d), st)

Render(d, st) == Join(Layout(d, st), st.eol, st.final)

Files == {Render(d, st) : d \in Docs(MaxSeps, MaxEntries), st \in Styles}

\* Short files, for the check of every single edit of a file.
ShortFiles == {Render(d, st) : d \in Docs(MaxEditSeps, MaxEntries), st \in Styles}

\* Inputs of Panel::try_from: lists of at most MaxGroupLen lines.
UncommonIrmaMarker == <<"~","I","r","m","a",":">>

NotedText == <<"l", Note, "~", "~">>

PanelLines ==
    { IrmaMarker, AbMarker, UncommonIrmaMarker, SonoMarker, SkriboMarker,
      EmptyMarker, EmptyUncommonMarker, SungText, PlainText, NotedText }

RECURSIVE SeqsUpTo(_, _)
SeqsUpTo(S, n) ==
    IF n = 0 THEN {<<>>}
    ELSE LET shorter == SeqsUpTo(S, n - 1)
         IN  shorter \cup {Append(q, x) : q \in shorter, x \in S}

Groups == SeqsUpTo(PanelLines, MaxGroupLen)

\* Inputs of Speaker::try_from: a body between two affixes of at most
\* MaxAffix characters.
AffixChars == {Tilde, Colon, " ", "X"}

Bodies ==
    { <<>>,
      SONO,
      <<"[","S","o","N","o","]">>,
      <<"[","S","K","R","I","B","O","]">>,
      <<"i","r","m","a">>,
      <<"A","b">> }

Markers ==
    {pre \o body \o suf : pre \in SeqsUpTo(AffixChars, MaxAffix), body \in Bodies,
                          suf \in SeqsUpTo(AffixChars, MaxAffix)}

-----------------------------------------------------------------------------
(* The parser as a state machine: one parse of one input, then queries *)

None == <<>>

Some(v) == <<v>>

Idle ==
    /\ result = None
    /\ panels = None
    /\ names = None
    /\ stdout = <<>>
    /\ panel = None
    /\ speaker = None

Init == Idle /\ file \in Files /\ strings = <<>> /\ string = <<>>

InitEdit == Idle /\ file \in ShortFiles /\ strings = <<>> /\ string = <<>>

InitPanel == Idle /\ file = <<>> /\ strings \in Groups /\ string = <<>>

InitSpeaker == Idle /\ file = <<>> /\ strings = <<>> /\ string \in Markers

\* Transcript::try_from(file)
Parse ==
    /\ result = None
    /\ LET r == Transcript_try_from(file)
       IN  /\ result' = Some(r.res)
           /\ stdout' = stdout \o r.out
    /\ UNCHANGED <<file, panels, names, strings, panel, string, speaker>>

Parsed == result # None /\ result[1].ok

\* transcript.panels()
CallPanels ==
    /\ Parsed
    /\ panels = None
    /\ panels' = Some(Transcript_panels(result[1].val))
    /\ UNCHANGED <<file, result, names, stdout, strings, panel, string, speaker>>

\* transcript.names()
CallNames ==
    /\ Parsed
    /\ names = None
    /\ names' = Some(Transcript_names(result[1].val))
    /\ UNCHANGED <<file, result, panels, stdout, strings, panel, string, speaker>>

\* Panel::try_from(strings)
ParsePanel ==
    /\ panel = None
    /\ LET r == Panel_try_from(strings)
       IN  /\ panel' = Some(r.res)
           /\ stdout' = stdout \o r.out
    /\ UNCHANGED <<file, result, panels, names, strings, string, speaker>>

\* Speaker::try_from(string)
Classify ==
    /\ speaker = None
    /\ speaker' = Some(Speaker_try_from(string))
    /\ stdout' = stdout \o Speaker_println(string)
    /\ UNCHANGED <<file, result, panels, names, strings, panel, string>>

Next == Parse \/ CallPanels \/ CallNames

NextPanel == ParsePanel

NextSpeaker == Classify

Spec == Init /\ [][Next]_vars

SpecEdit == InitEdit /\ [][Next]_vars

SpecPanel == InitPanel /\ [][NextPanel]_vars

SpecSpeaker == InitSpeaker /\ [][NextSpeaker]_vars

-----------------------------------------------------------------------------
(* Vocabulary of the claims, defined on the input text itself *)

\* The lines of f that are not blank, trimmed, in source order.
ContentLines(f) ==
    LET raw == lines(f)
    IN  SelectSeq([i \in 1..Len(raw) |-> trim(raw[i])], LAMBDA l : l # <<>>)

SeparatorAt(cl) == {i \in 1..Len(cl) : cl[i] = <<"-", "-", "-">>}

NumGroups(cl) == Cardinality(SeparatorAt(cl)) + 1

\* The k-th group: the lines with exactly k - 1 separator lines before them.
GroupOf(cl, k) ==
    LET sep == SeparatorAt(cl)
        at == SelectSeq([i \in 1..Len(cl) |-> i],
                        LAMBDA i : i \notin sep /\ Cardinality({j \in sep : j < i}) = k - 1)
    IN  [n \in 1..Len(at) |-> cl[at[n]]]

SameLetter(a, b) ==
    a = b \/ \E k \in 1..Len(Upper) : {a, b} = {Upper[k], Lower[k]}

EqIgnoreCase(a, b) ==
    Len(a) = Len(b) /\ \A i \in 1..Len(a) : SameLetter(a[i], b[i])

IsKeyword(l) == EqIgnoreCase(l, SONO) \/ EqIgnoreCase(l, SKRIBO)

IsMarker(l) == (Len(l) > 0 /\ l[Len(l)] = ":") \/ IsKeyword(l)

MarkersOf(g) == {g[i] : i \in {j \in 1..Len(g) : j % 2 = 1}}

WellFormed(g) == Len(g) % 2 = 0 /\ \A m \in MarkersOf(g) : IsMarker(m)

AllWellFormed(cl) == \A k \in 1..NumGroups(cl) : WellFormed(GroupOf(cl, k))

\* Panel p holds the pairs of group g, in order.
PanelHolds(p, g) ==
    /\ 2 * Len(p.lines) = Len(g)
    /\ \A j \in 1..Len(p.lines) :
         p.lines[j] = Line(Speaker_try_from(g[2 * j - 1]).val,
                           format_transcript_text(g[2 * j]))

-----------------------------------------------------------------------------
\* C1: an input with exactly 2 (resp. 6) separator lines whose groups are all
\* well-formed parses, panels() then has 3 (resp. 7) panels and panel k holds
\* the pairs of the k-th group in source order; and every transcript returned
\* has 3 or 7 panels.
InvPanelCount ==
    result # None =>
        LET cl == ContentLines(file)
            n == NumGroups(cl)
        IN  /\ (n \in {3, 7} /\ AllWellFormed(cl)) => result[1].ok
            /\ result[1].ok => Len(Transcript_panels(result[1].val)) \in {3, 7}
            /\ panels # None =>
                 /\ Len(panels[1]) = n
                 /\ n \in {3, 7}
                 /\ \A k \in 1..n : PanelHolds(panels[1][k], GroupOf(cl, k))

WitSundayPanels ==
    /\ panels # None
    /\ Len(panels[1]) = 7
    /\ \E k \in 1..7 : Len(panels[1][k].lines) > 0

-----------------------------------------------------------------------------
-----------------------------------------------------------------------------
\* C3 as stated: an input that is empty, or whose lines are all blank, fails
\* with EmptyInput.
EmptyInputReported ==
    (result # None /\ ContentLines(file) = <<>>) => result[1] = Err(EmptyInput)

-----------------------------------------------------------------------------
\* C7 as stated: in every transcript returned by a successful parse, every
\* Character has a non-empty name.
NameNeverEmpty ==
    Parsed =>
        \A k \in 1..Len(result[1].val.panels) :
            \A j \in 1..Len(result[1].val.panels[k].lines) :
                LET sp == result[1].val.panels[k].lines[j].speaker
                IN  sp.tag = "Character" => sp.name # <<>>

-----------------------------------------------------------------------------
\* The positions <<panel, line>> of the Character lines of transcript t, and
\* their reading order.
CharacterAt(t) ==
    {pos \in UNION {{<<k, j>> : j \in 1..Len(t.panels[k].lines)} : k \in 1..Len(t.panels)} :
        t.panels[pos[1]].lines[pos[2]].speaker.tag = "Character"}

ReadBefore(a, b) == a[1] < b[1] \/ (a[1] = b[1] /\ a[2] < b[2])

\* C8: names() is the list of the (name, uncommon) pairs of the Character
\* lines, in panel order and then line order, Sound and Text lines skipped,
\* duplicates kept; its length is the number of Character lines.
InvNames ==
    names # None =>
        LET t == result[1].val
            at == CharacterAt(t)
        IN  /\ Len(names[1]) = Cardinality(at)
            /\ \A pos \in at :
                 LET sp == t.panels[pos[1]].lines[pos[2]].speaker
                 IN  names[1][Cardinality({q \in at : ReadBefore(q, pos)}) + 1]
                       = <<sp.name, sp.uncommon>>

WitNamesSkip ==
    /\ names # None
    /\ names[1] = << <<(<<"i","r","m","a">>), FALSE>>, <<(<<"a","b">>), TRUE>> >>
    /\ \E k \in 1..Len(result[1].val.panels) :
         \E j \in 1..Len(result[1].val.panels[k].lines) :
             result[1].val.panels[k].lines[j].speaker = Sound

-----------------------------------------------------------------------------
\* C4 as stated: whenever a group has odd length, parsing fails with
\* DanglingSpeaker naming the last line of the group.
DanglingWheneverOdd ==
    (panel # None /\ Len(strings) % 2 = 1) =>
        panel[1] = Err(DanglingSpeaker(strings[Len(strings)]))

\* C4 amended: whenever a group has odd length, parsing it fails: with
\* DanglingSpeaker naming the last line of the group when every marker line
\* of the group, the last line included, is a speaker marker, and otherwise
\* with InvalidSpeaker naming the first marker line that is none.
InvDangling ==
    (panel # None /\ Len(strings) % 2 = 1) =>
        LET bad == {i \in 1..Len(strings) : i % 2 = 1 /\ ~IsMarker(strings[i])}
        IN  IF bad = {}
            THEN panel[1] = Err(DanglingSpeaker(strings[Len(strings)]))
            ELSE LET first == CHOOSE i \in bad : \A j \in bad : i <= j
                 IN  panel[1] = Err(InvalidSpeaker(strings[first]))

WitDangling ==
    /\ panel # None
    /\ Len(strings) = 3
    /\ panel[1] = Err(DanglingSpeaker(strings[3]))

-----------------------------------------------------------------------------
Count(c, s) == Cardinality({i \in 1..Len(s) : s[i] = c})

\* C9: in a parsed panel the k-th line's text is the text line of the k-th
\* pair with every ~ replaced by the note and nothing else changed, so it
\* holds no ~ and equals the raw line when that holds no ~; the ~ of a
\* speaker marker is never turned into a note in the name.
InvText ==
    (panel # None /\ panel[1].ok) =>
        LET ls == panel[1].val.lines
        IN  /\ 2 * Len(ls) = Len(strings)
            /\ \A k \in 1..Len(ls) :
                 LET raw == strings[2 * k]
                     text == ls[k].text
                     sp == ls[k].speaker
                 IN  /\ Len(text) = Len(raw)
                     /\ \A i \in 1..Len(raw) :
                          text[i] = IF raw[i] = "~" THEN Note ELSE raw[i]
                     /\ Count("~", text) = 0
                     /\ Count("~", raw) = 0 => text = raw
                     /\ sp.tag = "Character" =>
                          Count(Note, sp.name) = Count(Note, strings[2 * k - 1])

WitText ==
    /\ panel # None
    /\ panel[1].ok
    /\ strings = <<AbMarker, NotedText>>
    /\ panel[1].val.lines[1].text = <<"l", Note, Note, Note>>

-----------------------------------------------------------------------------
EndsWithColon(l) == Len(l) > 0 /\ l[Len(l)] = ":"

\* C5: a marker line that does not end with a colon is Sound iff it equals
\* [sono] ignoring case, Text iff it equals [skribo] ignoring case, and
\* otherwise fails with InvalidSpeaker naming the line; never a Character.
InvKeyword ==
    (speaker # None /\ ~EndsWithColon(string)) =>
        /\ speaker[1] = Ok(Sound) <=> EqIgnoreCase(string, SONO)
        /\ speaker[1] = Ok(Text) <=> EqIgnoreCase(string, SKRIBO)
        /\ ~IsKeyword(string) => speaker[1] = Err(InvalidSpeaker(string))
        /\ speaker[1].ok => speaker[1].val.tag # "Character"

WitKeyword ==
    /\ speaker # None
    /\ string = <<"[","S","o","N","o","]">>
    /\ speaker[1] = Ok(Sound)

\* C6: a marker line that ends with a colon is a Character; uncommon is true
\* exactly when the line begins with ~ before its colon; the name is the line
\* without its colon and without that one ~, in lower case, whether or not it
\* is a common name.
InvCharacter ==
    (speaker # None /\ EndsWithColon(string)) =>
        LET body == SubSeq(string, 1, Len(string) - 1)
            u == Len(body) > 0 /\ body[1] = "~"
            off == IF u THEN 1 ELSE 0
        IN  /\ speaker[1].ok
            /\ speaker[1].val.tag = "Character"
            /\ speaker[1].val.uncommon = u
            /\ Len(speaker[1].val.name) = Len(body) - off
            /\ \A i \in 1..(Len(body) - off) :
                 /\ SameLetter(speaker[1].val.name[i], body[i + off])
                 /\ \A k \in 1..Len(Upper) : speaker[1].val.name[i] # Upper[k]

WitCharacter ==
    /\ speaker # None
    /\ string = <<"~","i","r","m","a",":">>
    /\ speaker[1] = Ok(Character(<<"i","r","m","a">>, TRUE))

-----------------------------------------------------------------------------
(* Edits of one line of a file *)

BlankLines == {<<>>, <<" ", "\t">>}

LineStarts(f) == {1} \cup {i + 1 : i \in {j \in 1..Len(f) : f[j] = "\n"}}

LineEnd(f, p) ==
    CHOOSE i \in p..(Len(f) + 1) :
        /\ i = Len(f) + 1 \/ f[i] = "\n"
        /\ \A j \in p..(i - 1) : f[j] # "\n"

InsertLine(f, p, b) == SubSeq(f, 1, p - 1) \o b \o <<"\n">> \o SubSeq(f, p, Len(f))

AppendLine(f, b) == f \o <<"\n">> \o b

BlankLineStarts(f) ==
    {p \in LineStarts(f) : p <= Len(f) /\ \A j \in p..(LineEnd(f, p) - 1) : f[j] \in WhiteSpace}

RemoveLine(f, p) == SubSeq(f, 1, p - 1) \o SubSeq(f, LineEnd(f, p) + 1, Len(f))

EditsOf(f) ==
    {InsertLine(f, p, b) : p \in LineStarts(f), b \in BlankLines}
    \cup {AppendLine(f, b) : b \in BlankLines}
    \cup {RemoveLine(f, p) : p \in BlankLineStarts(f)}

\* C10: inserting or removing a blank line anywhere in the input leaves the
\* outcome of the parse unchanged, and the number of groups is the number of
\* separator lines plus one.
InvBlankLines ==
    result # None =>
        /\ \A g \in EditsOf(file) : Transcript_try_from(g).res = result[1]
        /\ Len(panels_lines_of(file)) = NumGroups(ContentLines(file))

WitBlankLines ==
    /\ Parsed
    /\ BlankLineStarts(file) # {}
    /\ \E k \in 1..3 : Len(result[1].val.panels[k].lines) > 1

====
